---- MODULE Spec2Model ----
(***************************************************************************)
(* Model of src/components/OsakFootprint.tsx: the trail survey (bonus      *)
(* score) and the household carbon-footprint calculator.                   *)
(*                                                                         *)
(* Numbers.  The component computes with JavaScript numbers, which are     *)
(* IEEE 754 doubles, and the rounding of a sum can decide a tier: 1.4 +    *)
(* 2.1 + 1.7 + 0.9 + 0.9 is 7.000000000000001, which is above the bound 7  *)
(* of band B.  Every number of the estimator is therefore held as the      *)
(* double itself, and every +, -, *, / rounds to nearest, ties to even, as *)
(* the source's does.  The integers the controls deliver (people, bonus,   *)
(* the slider position of the walked distance) stay integers until the     *)
(* source's arithmetic uses them.                                          *)
(***************************************************************************)
EXTENDS Integers, Sequences, FiniteSets

(***************************************************************************)
(* Naturals beyond the integer width: little-endian sequences of limbs in  *)
(* 0..LimbBase-1 without a most-significant zero limb; zero is <<>>.       *)
(***************************************************************************)
LimbBits == 13
LimbBase == 2 ^ LimbBits

RECURSIVE BigOfNat(_)
BigOfNat(n) == IF n = 0 THEN <<>> ELSE <<n % LimbBase>> \o BigOfNat(n \div LimbBase)

RECURSIVE BigAddC(_, _, _)
BigAddC(a, b, c) ==
    IF a = <<>> /\ b = <<>> THEN (IF c = 0 THEN <<>> ELSE <<c>>)
    ELSE LET x == IF a = <<>> THEN 0 ELSE Head(a)
             y == IF b = <<>> THEN 0 ELSE Head(b)
             s == x + y + c
         IN  <<s % LimbBase>> \o
             BigAddC(IF a = <<>> THEN <<>> ELSE Tail(a),
                     IF b = <<>> THEN <<>> ELSE Tail(b),
                     s \div LimbBase)

\* a - b - c for a >= b + c, c in {0, 1}
RECURSIVE BigSubC(_, _, _)
BigSubC(a, b, c) ==
    IF a = <<>> THEN <<>>
    ELSE LET y    == IF b = <<>> THEN 0 ELSE Head(b)
             s    == Head(a) - y - c
             rest == BigSubC(Tail(a), IF b = <<>> THEN <<>> ELSE Tail(b),
                             IF s < 0 THEN 1 ELSE 0)
             limb == IF s < 0 THEN s + LimbBase ELSE s
         IN  IF rest = <<>> /\ limb = 0 THEN <<>> ELSE <<limb>> \o rest

\* a * k + c for 0 < k < 2^17
RECURSIVE BigMulSmallC(_, _, _)
BigMulSmallC(a, k, c) ==
    IF a = <<>> THEN (IF c = 0 THEN <<>> ELSE BigOfNat(c))
    ELSE LET s == Head(a) * k + c
         IN  <<s % LimbBase>> \o BigMulSmallC(Tail(a), k, s \div LimbBase)

\* the limbs of the number whose digits in base LimbBase, before the carries
\* are taken, are s, plus c
RECURSIVE Carry(_, _)
Carry(s, c) ==
    IF s = <<>> THEN BigOfNat(c)
    ELSE <<(Head(s) + c) % LimbBase>> \o Carry(Tail(s), (Head(s) + c) \div LimbBase)

\* a * b for two numbers of five limbs, the width of a mantissa
MantissaMul(a, b) ==
    Carry(<< a[1] * b[1],
             a[1] * b[2] + a[2] * b[1],
             a[1] * b[3] + a[2] * b[2] + a[3] * b[1],
             a[1] * b[4] + a[2] * b[3] + a[3] * b[2] + a[4] * b[1],
             a[1] * b[5] + a[2] * b[4] + a[3] * b[3] + a[4] * b[2] + a[5] * b[1],
             a[2] * b[5] + a[3] * b[4] + a[4] * b[3] + a[5] * b[2],
             a[3] * b[5] + a[4] * b[4] + a[5] * b[3],
             a[4] * b[5] + a[5] * b[4],
             a[5] * b[5] >>, 0)

\* -1, 0, 1 as a < b, a = b, a > b
RECURSIVE BigCmp(_, _)
BigCmp(a, b) ==
    IF Len(a) # Len(b) THEN (IF Len(a) < Len(b) THEN -1 ELSE 1)
    ELSE IF a = <<>> THEN 0
    ELSE LET n == Len(a)
         IN  IF a[n] # b[n] THEN (IF a[n] < b[n] THEN -1 ELSE 1)
             ELSE BigCmp(SubSeq(a, 1, n - 1), SubSeq(b, 1, n - 1))

\* quotient and remainder of a by d, for 0 < d <= 2^17
RECURSIVE BigDivSmallR(_, _)
BigDivSmallR(a, d) ==
    IF a = <<>> THEN [q |-> <<>>, r |-> 0]
    ELSE LET hi  == BigDivSmallR(Tail(a), d)
             cur == hi.r * LimbBase + Head(a)
         IN  [q |-> IF hi.q = <<>> /\ cur \div d = 0 THEN <<>> ELSE <<cur \div d>> \o hi.q,
              r |-> cur % d]

\* k zero limbs
Zeros(k) == [i \in 1..k |-> 0]

\* 2^k
Pow2(k) == Zeros(k \div LimbBits) \o <<2 ^ (k % LimbBits)>>

\* a * 2^k
ShiftLeft(a, k) ==
    IF a = <<>> THEN a
    ELSE Zeros(k \div LimbBits) \o BigMulSmallC(a, 2 ^ (k % LimbBits), 0)

\* the number of binary digits of a > 0
BitLen(a) ==
    LimbBits * (Len(a) - 1)
        + (CHOOSE j \in 1..LimbBits : 2 ^ (j - 1) <= a[Len(a)] /\ a[Len(a)] < 2 ^ j)

\* q or q + 1 as the discarded part is below or above one half (cmp is the
\* comparison of twice the discarded part with the divisor): ties to even
RoundHalfEven(q, cmp) ==
    IF cmp > 0 \/ (cmp = 0 /\ q # <<>> /\ Head(q) % 2 = 1) THEN BigAddC(q, <<1>>, 0) ELSE q

\* q + 1 or q for a quotient by 2 with remainder h of a number that had
\* further nonzero binary digits (more) or not: the nearest integer to the
\* half of it, ties to even
RoundHalf(h, more) == RoundHalfEven(h.q, IF h.r = 0 THEN -1 ELSE IF more THEN 1 ELSE 0)

\* the same for t, a quotient with remainder by a power of two, whose
\* dividend had nonzero digits dropped before the division (more) or not
RoundQuot(t, more) == RoundHalf(BigDivSmallR(t.q, 2), more \/ t.r # 0)

\* a / 2^k rounded to the nearest integer, ties to even, for 0 < k < BitLen(a):
\* the digit after the last one kept says whether the discarded part reaches
\* one half, the digits after it whether it exceeds one half
RoundShift(a, k) ==
    RoundQuot(BigDivSmallR(SubSeq(a, (k - 1) \div LimbBits + 1, Len(a)),
                           2 ^ ((k - 1) % LimbBits)),
              \E i \in 1..((k - 1) \div LimbBits) : a[i] # 0)

(***************************************************************************)
(* IEEE 754 doubles.  A finite double is [neg, m, e] with value            *)
(* (-1)^neg * m * 2^e, where m = <<>> and e = 0 for zero and               *)
(* 2^52 <= m < 2^53 otherwise.  The estimator stays far inside the normal  *)
(* range, so subnormals and overflow are not represented; Infinity and NaN *)
(* are the two further values a number of the source can be.               *)
(***************************************************************************)
Infinity == [neg |-> FALSE, m |-> <<>>, e |-> 1]
NaN      == [neg |-> FALSE, m |-> <<>>, e |-> 2]

IsZero(x) == x.m = <<>> /\ x.e = 0

\* Infinity or -Infinity
IsInfinite(x) == x.m = <<>> /\ x.e = 1

\* the double (-1)^neg * r * 2^e for 2^52 <= r <= 2^53
Normal(neg, r, e) ==
    IF BigCmp(r, Pow2(53)) = 0 THEN [neg |-> neg, m |-> Pow2(52), e |-> e + 1]
    ELSE [neg |-> neg, m |-> r, e |-> e]

\* the double nearest to (-1)^neg * a * 2^e when a has n > 0 binary digits
RoundTo(neg, a, e, n) ==
    IF n <= 53 THEN [neg |-> neg, m |-> ShiftLeft(a, 53 - n), e |-> e - (53 - n)]
    ELSE Normal(neg, RoundShift(a, n - 53), e + (n - 53))

\* the double nearest to (-1)^neg * a * 2^e, ties to even
Round(neg, a, e) ==
    IF a = <<>> THEN [neg |-> neg, m |-> <<>>, e |-> 0] ELSE RoundTo(neg, a, e, BitLen(a))

\* the double nearest to (-1)^neg * (a.q + f) * 2^(e - 64), where the fraction
\* f is zero when a.r is and strictly between 0 and 1 otherwise, for a.q of more
\* than 54 binary digits
RoundQuotient(neg, a, e) ==
    Round(neg, BigAddC(ShiftLeft(a.q, 1), IF a.r = 0 THEN <<>> ELSE <<1>>, 0), e - 65)

\* an integer of the source as a number
Number(n) == Round(n < 0, BigOfNat(IF n < 0 THEN 0 - n ELSE n), 0)

\* the double nearest to n / d for integers n and 0 < d <= 2^17, which is
\* what a decimal literal of the source denotes (1.4 is DoubleOfRatio(14, 10)).
\* The quotient keeps 64 binary digits after the point and one more that
\* tells whether the remainder is zero, which is all the rounding needs.
DoubleOfRatio(n, d) ==
    RoundQuotient(n < 0, BigDivSmallR(ShiftLeft(BigOfNat(IF n < 0 THEN 0 - n ELSE n), 64), d), 0)

\* x * y for finite x and y
DoubleMul(x, y) ==
    IF x.m = <<>> \/ y.m = <<>> THEN [neg |-> x.neg # y.neg, m |-> <<>>, e |-> 0]
    ELSE Round(x.neg # y.neg, MantissaMul(x.m, y.m), x.e + y.e)

\* -1, 0, 1 as |x| < |y|, |x| = |y|, |x| > |y|, for finite x and y
MagCmp(x, y) ==
    IF x.m = <<>> \/ y.m = <<>>
    THEN (IF x.m = y.m THEN 0 ELSE IF x.m = <<>> THEN -1 ELSE 1)
    ELSE IF x.e # y.e THEN (IF x.e < y.e THEN -1 ELSE 1)
    ELSE BigCmp(x.m, y.m)

\* -1, 0, 1 as x < y, x = y, x > y, for finite x and y (-0 = 0)
DoubleCmp(x, y) ==
    IF IsZero(x) /\ IsZero(y) THEN 0
    ELSE IF x.neg # y.neg /\ ~IsZero(x) /\ ~IsZero(y) THEN (IF x.neg THEN -1 ELSE 1)
    ELSE IF IsZero(x) THEN (IF y.neg THEN 1 ELSE -1)
    ELSE IF IsZero(y) THEN (IF x.neg THEN -1 ELSE 1)
    ELSE IF x.neg THEN MagCmp(y, x) ELSE MagCmp(x, y)

\* the exact sum of two numbers written over the same exponent e, rounded
AddAligned(x, y, a, b, e) ==
    IF x.neg = y.neg THEN Round(x.neg, BigAddC(a, b, 0), e)
    ELSE IF a = b THEN [neg |-> FALSE, m |-> <<>>, e |-> 0]
    ELSE Round(x.neg, BigSubC(a, b, 0), e)

\* x + y for nonzero finite |x| >= |y|, e the smaller of their exponents
AddOrdered(x, y, e) == AddAligned(x, y, ShiftLeft(x.m, x.e - e), ShiftLeft(y.m, y.e - e), e)

\* x + y for finite x and y: the exact sum over the smaller exponent,
\* rounded once
DoubleAdd(x, y) ==
    IF IsZero(x) /\ IsZero(y) THEN [neg |-> x.neg /\ y.neg, m |-> <<>>, e |-> 0]
    ELSE IF IsZero(x) THEN y
    ELSE IF IsZero(y) THEN x
    ELSE IF MagCmp(x, y) >= 0 THEN AddOrdered(x, y, IF x.e < y.e THEN x.e ELSE y.e)
    ELSE AddOrdered(y, x, IF x.e < y.e THEN x.e ELSE y.e)

\* x - y
DoubleSub(x, y) == DoubleAdd(x, [y EXCEPT !.neg = ~y.neg])

\* x / n for a finite x and an integer n with |n| <= 2^13
DoubleDivInt(x, n) ==
    IF n = 0 THEN (IF IsZero(x) THEN NaN ELSE [Infinity EXCEPT !.neg = x.neg])
    ELSE RoundQuotient(x.neg # (n < 0),
                       BigDivSmallR(ShiftLeft(x.m, 64), IF n < 0 THEN 0 - n ELSE n), x.e)

\* x <= y of the source, for any two numbers
DoubleLeq(x, y) ==
    IF x = NaN \/ y = NaN THEN FALSE
    ELSE IF IsInfinite(x) THEN x.neg \/ x = y
    ELSE IF IsInfinite(y) THEN ~y.neg
    ELSE DoubleCmp(x, y) <= 0

\* Math.max(x, y) for finite x and y
MathMax(x, y) == IF DoubleCmp(x, y) >= 0 THEN x ELSE y

\* Math.min(x, y) for finite x and y
MathMin(x, y) == IF DoubleCmp(x, y) <= 0 THEN x ELSE y

\* the k-th double after x (before, for k < 0), for x > 0
RECURSIVE DoubleStep(_, _)
DoubleStep(x, k) ==
    IF k = 0 THEN x
    ELSE IF k > 0
    THEN LET m == BigAddC(x.m, <<1>>, 0)
         IN  DoubleStep(IF BigCmp(m, Pow2(53)) = 0 THEN [x EXCEPT !.m = Pow2(52), !.e = x.e + 1]
                        ELSE [x EXCEPT !.m = m], k - 1)
    ELSE DoubleStep(IF BigCmp(x.m, Pow2(52)) = 0
                    THEN [x EXCEPT !.m = BigSubC(Pow2(53), <<1>>, 0), !.e = x.e - 1]
                    ELSE [x EXCEPT !.m = BigSubC(x.m, <<1>>, 0)], k + 1)

\* a * b * c * ... as the source evaluates it, left to right
RECURSIVE ProductFrom(_, _)
ProductFrom(acc, xs) ==
    IF xs = <<>> THEN acc ELSE ProductFrom(DoubleMul(acc, Head(xs)), Tail(xs))

\* a + b + c + ... as the source evaluates it, left to right
RECURSIVE SumFrom(_, _)
SumFrom(acc, xs) ==
    IF xs = <<>> THEN acc ELSE SumFrom(DoubleAdd(acc, Head(xs)), Tail(xs))

(***************************************************************************)
(* Module-level constants of the component.  A decimal literal is written  *)
(* as the ratio it denotes: <<14, 10>> is the literal 1.4.                 *)
(***************************************************************************)
Literal(r) == DoubleOfRatio(r[1], r[2])

BASE ==
    LET t == [homePerPerson      |-> <<14, 10>>,
              transportPerPerson |-> <<21, 10>>,
              foodPerPerson      |-> <<17, 10>>,
              otherPerPerson     |-> <<9, 10>>]
    IN  [k \in DOMAIN t |-> Literal(t[k])]

FACTORS ==
    LET t == [transport |-> [car |-> <<14, 10>>, mixed |-> <<10, 10>>,
                             transit |-> <<75, 100>>, active |-> <<4, 10>>],
              diet      |-> [meat |-> <<13, 10>>, mixed |-> <<10, 10>>, veg |-> <<7, 10>>],
              energy    |-> [high |-> <<8, 10>>, mid |-> <<10, 10>>, low |-> <<12, 10>>],
              lifestyle |-> [frugal |-> <<9, 10>>, mid |-> <<10, 10>>, spend |-> <<11, 10>>],
              flights   |-> [none |-> <<0, 10>>, few |-> <<3, 10>>, some |-> <<9, 10>>,
                             many |-> <<20, 10>>],
              practice  |-> [ecoBag |-> <<95, 100>>, tumbler |-> <<95, 100>>,
                             reduceDisposable |-> <<9, 10>>, recycle |-> <<9, 10>>,
                             unplug |-> <<9, 10>>, tempControl |-> <<92, 100>>]]
    IN  [g \in DOMAIN t |-> [k \in DOMAIN t[g] |-> Literal(t[g][k])]]

\* keyof typeof FACTORS.practice, in declaration order
PracticeKey == <<"ecoBag", "tumbler", "reduceDisposable", "recycle", "unplug", "tempControl">>

\* 0.19
AVOIDED_PER_KM_CAR_KG == DoubleOfRatio(19, 100)

(***************************************************************************)
(* The pure functions of the component.  A definition whose comment starts *)
(* with "variant:" is the definition after it with one slip made; the      *)
(* properties at the end are shown to tell the two apart.                  *)
(***************************************************************************)
\* the record calcSubtotal returns for its five terms
Subtotals(home, transportVal, food, other, flightAdd) ==
    [home |-> home, transportVal |-> transportVal, food |-> food, other |-> other,
     flightAdd |-> flightAdd,
     subtotal |-> SumFrom(home, <<transportVal, food, other, flightAdd>>)]

\* variant: the flights term scaled by people like the other categories
calcSubtotalFlightsPerPerson(people, transport, diet, energy, lifestyle, flights, householdScale) ==
    Subtotals(ProductFrom(BASE.homePerPerson,
                          <<Number(people), householdScale, FACTORS.energy[energy]>>),
              ProductFrom(BASE.transportPerPerson,
                          <<Number(people), FACTORS.transport[transport]>>),
              ProductFrom(BASE.foodPerPerson, <<Number(people), FACTORS.diet[diet]>>),
              ProductFrom(BASE.otherPerPerson, <<Number(people), FACTORS.lifestyle[lifestyle]>>),
              ProductFrom(FACTORS.flights[flights], <<Number(people)>>))

calcSubtotal(people, transport, diet, energy, lifestyle, flights, householdScale) ==
    Subtotals(ProductFrom(BASE.homePerPerson,
                          <<Number(people), householdScale, FACTORS.energy[energy]>>),
              ProductFrom(BASE.transportPerPerson,
                          <<Number(people), FACTORS.transport[transport]>>),
              ProductFrom(BASE.foodPerPerson, <<Number(people), FACTORS.diet[diet]>>),
              ProductFrom(BASE.otherPerPerson, <<Number(people), FACTORS.lifestyle[lifestyle]>>),
              FACTORS.flights[flights])

\* practice.reduce((acc, k) => acc * FACTORS.practice[k], acc)
RECURSIVE PracticeProduct(_, _)
PracticeProduct(practice, acc) ==
    IF practice = <<>> THEN acc
    ELSE PracticeProduct(Tail(practice), DoubleMul(acc, FACTORS.practice[Head(practice)]))

\* variant: Math.min for Math.max
calcPracticeMultiplierMin(practice) ==
    MathMin(DoubleOfRatio(6, 10), PracticeProduct(practice, Number(1)))

\* variant: the floor at 0.65
calcPracticeMultiplierHighFloor(practice) ==
    MathMax(DoubleOfRatio(65, 100), PracticeProduct(practice, Number(1)))

\* Math.max(0.6, mul)
calcPracticeMultiplier(practice) ==
    MathMax(DoubleOfRatio(6, 10), PracticeProduct(practice, Number(1)))

\* variant: no floor
HouseholdScaleNoFloor(people) ==
    DoubleSub(Number(1), DoubleMul(DoubleOfRatio(1, 10), Number(people - 1)))

\* the body of the householdScale memo: Math.max(0.6, 1 - 0.1 * (people - 1))
HouseholdScale(people) ==
    MathMax(DoubleOfRatio(6, 10),
            DoubleSub(Number(1), DoubleMul(DoubleOfRatio(1, 10), Number(people - 1))))

\* the tier bands of the result memo, ascending; the labels stand for the
\* Korean labels of the source
Bands ==
    LET t == << [max |-> 3, tier |-> "S", label |-> "excellent"],
                [max |-> 5, tier |-> "A", label |-> "good"],
                [max |-> 7, tier |-> "B", label |-> "average"],
                [max |-> 9, tier |-> "C", label |-> "needs improvement"] >>
    IN  [i \in 1..Len(t) |-> [t[i] EXCEPT !.max = Number(@)]]
        \o << [max |-> Infinity, tier |-> "D", label |-> "needs significant improvement"] >>

\* what find returns when no band matches
Undefined == [max |-> NaN, tier |-> "undefined", label |-> "undefined"]

\* the first of the bands whose index is in hits: what find returns
Find(bands, hits) ==
    IF hits = {} THEN Undefined ELSE bands[CHOOSE i \in hits : \A j \in hits : i <= j]

\* variant: perPerson < b.max for perPerson <= b.max
RankStrict(perPerson) ==
    Find(Bands, {i \in 1..Len(Bands) :
                    DoubleLeq(perPerson, Bands[i].max) /\ perPerson # Bands[i].max})

\* bands.find((b) => perPerson <= b.max)
Rank(perPerson) ==
    Find(Bands, {i \in 1..Len(Bands) : DoubleLeq(perPerson, Bands[i].max)})

\* variant: 20% a point for 2%
BonusMultiplierTenfold(bonus) ==
    DoubleSub(Number(1), DoubleMul(Number(bonus), DoubleOfRatio(2, 10)))

\* 1 - bonus * 0.02
BonusMultiplier(bonus) ==
    DoubleSub(Number(1), DoubleMul(Number(bonus), DoubleOfRatio(2, 100)))

\* variant: no people > 0 guard
PerPersonNoGuard(people, total) == DoubleDivInt(total, people)

\* people > 0 ? total / people : total
PerPerson(people, total) == IF people > 0 THEN DoubleDivInt(total, people) ELSE total

\* subtotal * practiceMultiplier * bonusMultiplier
Total(subtotal, practiceMultiplier, bonus) ==
    ProductFrom(subtotal, <<practiceMultiplier, BonusMultiplier(bonus)>>)

\* return { total, breakdown, perPerson, rank }; the names stand for the
\* Korean names of the source
Summary(s, total, perPerson) ==
    [total |-> total,
     breakdown |-> << [name |-> "home/energy", value |-> s.home],
                      [name |-> "transport", value |-> s.transportVal],
                      [name |-> "food", value |-> s.food],
                      [name |-> "other", value |-> s.other],
                      [name |-> "flights", value |-> s.flightAdd] >>,
     perPerson |-> perPerson,
     rank |-> Rank(perPerson)]

\* the result memo once total is known
ResultOfTotal(people, s, total) == Summary(s, total, PerPerson(people, total))

\* the result memo once calcSubtotal has returned s
ResultOfSubtotal(people, s, practiceMultiplier, bonus) ==
    ResultOfTotal(people, s, Total(s.subtotal, practiceMultiplier, bonus))

\* the body of the result memo
Result(people, transport, diet, energy, lifestyle, flights, householdScale, practiceMultiplier, bonus) ==
    ResultOfSubtotal(people,
                     calcSubtotal(people, transport, diet, energy, lifestyle, flights,
                                  householdScale),
                     practiceMultiplier, bonus)

\* variant: no Math.max(0, .)
AvoidedKgNoClamp(walkKmToday) ==
    DoubleMul(DoubleOfRatio(walkKmToday, 10), AVOIDED_PER_KM_CAR_KG)

\* the body of the avoidedKg memo: Math.max(0, walkKmToday) * 0.19.  The
\* argument is the slider position in tenths of a kilometre.
AvoidedKg(walkKmToday) ==
    DoubleMul(MathMax(Number(0), DoubleOfRatio(walkKmToday, 10)), AVOIDED_PER_KM_CAR_KG)

\* variant: a selected reason counts one more point
SurveyBonusCountsReasons(survey) ==
    (IF survey.know = "yes" THEN 1 ELSE 0) + (IF survey.walked = "yes" THEN 3 ELSE 0)
        + (IF survey.reasons # <<>> THEN 1 ELSE 0)

\* the body of the bonus effect; "yes" and "no" stand for the two Korean
\* radio values of the source
SurveyBonus(survey) ==
    (IF survey.know = "yes" THEN 1 ELSE 0) + (IF survey.walked = "yes" THEN 3 ELSE 0)

(***************************************************************************)
(* The component OsakDulegilSurveyAndFootprint as a state machine.  Every  *)
(* useState cell is a variable; every useMemo cell is a variable holding   *)
(* the value cached at the last render; effect is TRUE between a render    *)
(* that changed `survey` and the run of the bonus effect it schedules.     *)
(* call/ret belong to the specification of the pure functions below.       *)
(***************************************************************************)
VARIABLES step, survey, bonus, effect,
          people, transport, diet, energy, lifestyle, flights, practice,
          walkKmToday, calculated,
          householdScale, practiceMultiplier, result, avoidedKg,
          edits, call, ret,
          selected   \* history: the keys whose last toggle since the last clear was checked

inputs == <<people, transport, diet, energy, lifestyle, flights, practice, walkKmToday>>
memos  == <<householdScale, practiceMultiplier, result, avoidedKg>>
vars   == <<step, survey, bonus, effect, inputs, calculated, memos, edits, call, ret, selected>>

\* number of handler invocations explored from the initial render
MaxEdits == 3
\* the walked-distance slider is explored at every WalkStride-th of its stops
WalkStride == 8

\* the choices the controls offer
KnowValues      == {"yes", "no"}
ReasonOptions   == <<"health", "nature", "leisure", "event", "other">>
SatisfactionOptions == <<"environment", "comfort", "signs", "access", "other">>
PeopleMin == 1
PeopleMax == 8
WalkMaxKm == 20
TransportKeys   == DOMAIN FACTORS.transport
DietKeys        == DOMAIN FACTORS.diet
EnergyKeys      == DOMAIN FACTORS.energy
LifestyleKeys   == DOMAIN FACTORS.lifestyle
FlightsKeys     == DOMAIN FACTORS.flights
\* the slider stops at 0, 0.5, ..., 20 km; every WalkStride-th stop is
\* explored, in units of 0.1 km
WalkValues      == {5 * k : k \in {j \in 0..(2 * WalkMaxKm) : j % WalkStride = 0}}

Range(s) == {s[i] : i \in DOMAIN s}

SelectSeq2(s, x) ==
    LET F[i \in 0..Len(s)] ==
            IF i = 0 THEN <<>>
            ELSE IF s[i] = x THEN F[i - 1] ELSE Append(F[i - 1], s[i])
    IN  F[Len(s)]

\* const set = new Set(prev); if (isOn) set.add(key); else set.delete(key);
\* return Array.from(set);
ToggleIn(prev, key, isOn) ==
    IF isOn
    THEN (IF key \in Range(prev) THEN prev ELSE Append(prev, key))
    ELSE SelectSeq2(prev, key)

\* variant: the result memo leaves `bonus` out of its dependency list
RenderWithoutBonusDep(practiceSet) ==
    /\ householdScale' =
          IF people' # people THEN HouseholdScale(people') ELSE householdScale
    /\ practiceMultiplier' =
          IF practiceSet THEN calcPracticeMultiplier(practice') ELSE practiceMultiplier
    /\ result' =
          IF \/ <<people', transport', diet', energy', lifestyle', flights'>>
                    # <<people, transport, diet, energy, lifestyle, flights>>
             \/ householdScale' # householdScale
             \/ practiceMultiplier' # practiceMultiplier
          THEN Result(people', transport', diet', energy', lifestyle', flights',
                      householdScale', practiceMultiplier', bonus')
          ELSE result
    /\ avoidedKg' =
          IF walkKmToday' # walkKmToday THEN AvoidedKg(walkKmToday') ELSE avoidedKg

\* One render: each useMemo cell is recomputed exactly when one of its
\* dependencies differs from the value of the previous render.  `practice`
\* is compared by identity: practiceSet says setPractice installed a new array.
Render(practiceSet) ==
    /\ householdScale' =
          IF people' # people THEN HouseholdScale(people') ELSE householdScale
    /\ practiceMultiplier' =
          IF practiceSet THEN calcPracticeMultiplier(practice') ELSE practiceMultiplier
    /\ result' =
          IF \/ <<people', transport', diet', energy', lifestyle', flights'>>
                    # <<people, transport, diet, energy, lifestyle, flights>>
             \/ householdScale' # householdScale
             \/ practiceMultiplier' # practiceMultiplier
             \/ bonus' # bonus
          THEN Result(people', transport', diet', energy', lifestyle', flights',
                      householdScale', practiceMultiplier', bonus')
          ELSE result
    /\ avoidedKg' =
          IF walkKmToday' # walkKmToday THEN AvoidedKg(walkKmToday') ELSE avoidedKg

Idle == [fn |-> "none"]

\* the state of the first render, whose bonus effect has yet to run
Mounted ==
    /\ step = 1
    /\ survey = [know |-> "no", walked |-> "no", reasons |-> <<>>, satisfaction |-> <<>>]
    /\ bonus = 0
    /\ effect = TRUE
    /\ people = 2
    /\ transport = "mixed"
    /\ diet = "mixed"
    /\ energy = "mid"
    /\ lifestyle = "mid"
    /\ flights = "none"
    /\ practice = <<>>
    /\ walkKmToday = 30
    /\ calculated = FALSE
    /\ householdScale = HouseholdScale(2)
    /\ practiceMultiplier = calcPracticeMultiplier(<<>>)
    /\ result = Result(2, "mixed", "mixed", "mid", "mid", "none",
                       HouseholdScale(2), calcPracticeMultiplier(<<>>), 0)
    /\ avoidedKg = AvoidedKg(30)
    /\ edits = 0
    /\ selected = {}

Init == Mounted /\ call = Idle /\ ret = <<>>

\* an event handler may run: no effect is waiting and the budget is not spent
Ready == ~effect /\ edits < MaxEdits

SurveyEdit(s) ==
    /\ survey' = s
    /\ effect' = TRUE
    /\ edits' = edits + 1
    /\ UNCHANGED <<step, bonus, inputs, calculated, call, ret, selected>>
    /\ Render(FALSE)

SetKnow ==
    /\ Ready /\ step = 1
    /\ \E v \in KnowValues \ {survey.know} : SurveyEdit([survey EXCEPT !.know = v])

SetWalked ==
    /\ Ready /\ step = 1
    /\ \E v \in KnowValues \ {survey.walked} : SurveyEdit([survey EXCEPT !.walked = v])

ToggleReason ==
    /\ Ready /\ step = 1
    /\ \E r \in Range(ReasonOptions), c \in BOOLEAN :
          SurveyEdit([survey EXCEPT !.reasons = ToggleIn(@, r, c)])

ToggleSatisfaction ==
    /\ Ready /\ step = 1
    /\ \E v \in Range(SatisfactionOptions), c \in BOOLEAN :
          SurveyEdit([survey EXCEPT !.satisfaction = ToggleIn(@, v, c)])

\* useEffect(() => { ...; setBonus(b); }, [survey])
BonusEffect ==
    /\ effect
    /\ bonus' = SurveyBonus(survey)
    /\ effect' = FALSE
    /\ UNCHANGED <<step, survey, inputs, calculated, edits, call, ret, selected>>
    /\ Render(FALSE)

NextStep ==
    /\ Ready /\ step = 1
    /\ step' = 2
    /\ edits' = edits + 1
    /\ UNCHANGED <<survey, bonus, effect, inputs, calculated, memos, call, ret, selected>>

InputEdit ==
    /\ calculated' = FALSE
    /\ edits' = edits + 1
    /\ UNCHANGED <<step, survey, bonus, effect, call, ret>>

SetPeople ==
    /\ Ready /\ step = 2
    /\ \E v \in (PeopleMin..PeopleMax) \ {people} : people' = v
    /\ UNCHANGED <<transport, diet, energy, lifestyle, flights, practice, walkKmToday>>
    /\ InputEdit /\ Render(FALSE) /\ UNCHANGED selected

SetTransport ==
    /\ Ready /\ step = 2
    /\ \E v \in TransportKeys \ {transport} : transport' = v
    /\ UNCHANGED <<people, diet, energy, lifestyle, flights, practice, walkKmToday>>
    /\ InputEdit /\ Render(FALSE) /\ UNCHANGED selected

SetDiet ==
    /\ Ready /\ step = 2
    /\ \E v \in DietKeys \ {diet} : diet' = v
    /\ UNCHANGED <<people, transport, energy, lifestyle, flights, practice, walkKmToday>>
    /\ InputEdit /\ Render(FALSE) /\ UNCHANGED selected

SetEnergy ==
    /\ Ready /\ step = 2
    /\ \E v \in EnergyKeys \ {energy} : energy' = v
    /\ UNCHANGED <<people, transport, diet, lifestyle, flights, practice, walkKmToday>>
    /\ InputEdit /\ Render(FALSE) /\ UNCHANGED selected

SetLifestyle ==
    /\ Ready /\ step = 2
    /\ \E v \in LifestyleKeys \ {lifestyle} : lifestyle' = v
    /\ UNCHANGED <<people, transport, diet, energy, flights, practice, walkKmToday>>
    /\ InputEdit /\ Render(FALSE) /\ UNCHANGED selected

SetFlights ==
    /\ Ready /\ step = 2
    /\ \E v \in FlightsKeys \ {flights} : flights' = v
    /\ UNCHANGED <<people, transport, diet, energy, lifestyle, practice, walkKmToday>>
    /\ InputEdit /\ Render(FALSE) /\ UNCHANGED selected

SetWalkKmToday ==
    /\ Ready /\ step = 2
    /\ \E v \in WalkValues \ {walkKmToday} : walkKmToday' = v
    /\ UNCHANGED <<people, transport, diet, energy, lifestyle, flights, practice>>
    /\ InputEdit /\ Render(FALSE) /\ UNCHANGED selected

\* onCheckedChange={(c) => { togglePractice(key, c); setCalculated(false); }}
TogglePractice ==
    /\ Ready /\ step = 2
    /\ \E key \in Range(PracticeKey), checked \in BOOLEAN :
          /\ practice' = ToggleIn(practice, key, checked = TRUE)
          /\ selected' = IF checked THEN selected \cup {key} ELSE selected \ {key}
    /\ UNCHANGED <<people, transport, diet, energy, lifestyle, flights, walkKmToday>>
    /\ InputEdit /\ Render(TRUE)

\* onClick={() => setPractice([])}
ClearPractice ==
    /\ Ready /\ step = 2
    /\ practice' = <<>>
    /\ selected' = {}
    /\ edits' = edits + 1
    /\ UNCHANGED <<people, transport, diet, energy, lifestyle, flights, walkKmToday>>
    /\ UNCHANGED <<step, survey, bonus, effect, calculated, call, ret>>
    /\ Render(TRUE)

\* onClick={() => setCalculated(true)}
ViewResult ==
    /\ Ready /\ step = 2
    /\ calculated' = TRUE
    /\ edits' = edits + 1
    /\ UNCHANGED <<step, survey, bonus, effect, inputs, memos, call, ret, selected>>

\* the button of the result panel: onClick={() => setCalculated(false)}
Reselect ==
    /\ Ready /\ step = 2 /\ calculated
    /\ calculated' = FALSE
    /\ edits' = edits + 1
    /\ UNCHANGED <<step, survey, bonus, effect, inputs, memos, call, ret, selected>>

Next ==
    \/ SetKnow \/ SetWalked \/ ToggleReason \/ ToggleSatisfaction
    \/ BonusEffect \/ NextStep
    \/ SetPeople \/ SetTransport \/ SetDiet \/ SetEnergy \/ SetLifestyle \/ SetFlights
    \/ SetWalkKmToday \/ TogglePractice \/ ClearPractice \/ ViewResult \/ Reselect

Spec == Init /\ [][Next]_vars

(***************************************************************************)
(* The calculator step on its own: the runs of the component from the      *)
(* moment step 2 opens (the bonus effect has run, the Next button was      *)
(* pressed) after the walked question was answered either way, with the    *)
(* whole edit budget left for the calculator's handlers.                   *)
(***************************************************************************)
CalcInit ==
    /\ step = 2
    /\ survey \in {[know |-> "no", walked |-> w, reasons |-> <<>>, satisfaction |-> <<>>] :
                      w \in KnowValues}
    /\ bonus = SurveyBonus(survey)
    /\ effect = FALSE
    /\ people = 2
    /\ transport = "mixed"
    /\ diet = "mixed"
    /\ energy = "mid"
    /\ lifestyle = "mid"
    /\ flights = "none"
    /\ practice = <<>>
    /\ walkKmToday = 30
    /\ calculated = FALSE
    /\ householdScale = HouseholdScale(2)
    /\ practiceMultiplier = calcPracticeMultiplier(<<>>)
    /\ result = Result(2, "mixed", "mixed", "mid", "mid", "none",
                       HouseholdScale(2), calcPracticeMultiplier(<<>>), bonus)
    /\ avoidedKg = AvoidedKg(30)
    /\ edits = 0
    /\ selected = {}
    /\ call = Idle
    /\ ret = <<>>

CalcNext ==
    \/ SetPeople \/ SetTransport \/ SetDiet \/ SetEnergy \/ SetLifestyle \/ SetFlights
    \/ SetWalkKmToday \/ TogglePractice \/ ClearPractice \/ ViewResult \/ Reselect

CalcSpec == CalcInit /\ [][CalcNext]_vars

(***************************************************************************)
(* The pure functions on their own: a call is drawn from the probes below, *)
(* and the one step of a behaviour applies the function to it.             *)
(***************************************************************************)
\* probes of people run from -NegPeople; the sliders never offer these
NegPeople == 1
\* largest people probed for householdScale and calcSubtotal
MaxProbePeople == 8
\* largest people probed for the whole estimate
MaxEstPeople == 4
\* perPerson is probed from 0 up to about MaxProbeTier
MaxProbeTier == 11
\* ... at the quotients by 1..MaxProbeDen, each with its ProbeSpread neighbours
ProbeSpread == 2
MaxProbeDen == 3
\* an estimate is probed with every array of up to MaxEstPractices practices
MaxEstPractices == 2
\* walked distance is probed from -NegWalkKm km in steps of 0.5 km
NegWalkKm == 5

CategoryChoices ==
    [transport : TransportKeys, diet : DietKeys, energy : EnergyKeys,
     lifestyle : LifestyleKeys, flights : FlightsKeys]

DefaultChoices ==
    [transport |-> "mixed", diet |-> "mixed", energy |-> "mid", lifestyle |-> "mid",
     flights |-> "none"]

\* every array of distinct practice keys
RECURSIVE ArraysOver(_)
ArraysOver(S) == {<<>>} \cup UNION {{<<k>> \o q : q \in ArraysOver(S \ {k})} : k \in S}

PracticeArrays == ArraysOver(Range(PracticeKey))

\* the practice arrays an estimate is probed with: every array of at most
\* MaxEstPractices distinct keys, in every order, and all six keys in
\* declaration order
EstimatePractices ==
    {q \in PracticeArrays : Len(q) <= MaxEstPractices} \cup {PracticeKey}

HouseholdScaleCalls ==
    {[fn |-> "householdScale", people |-> p] : p \in (0 - NegPeople)..MaxProbePeople}

CalcSubtotalCalls ==
    {[fn |-> "calcSubtotal", people |-> p, choice |-> c] :
        p \in (0 - NegPeople)..MaxProbePeople, c \in CategoryChoices}

CalcPracticeMultiplierCalls ==
    {[fn |-> "calcPracticeMultiplier", practice |-> q] : q \in PracticeArrays}

EstimateCalls ==
    {[fn |-> "estimate", people |-> p, choice |-> c, practice |-> <<>>, bonus |-> b] :
        p \in (0 - NegPeople)..MaxEstPeople, c \in CategoryChoices, b \in 0..4}
    \cup
    {[fn |-> "estimate", people |-> p, choice |-> c, practice |-> PracticeKey, bonus |-> 4] :
        p \in (0 - NegPeople)..MaxEstPeople, c \in CategoryChoices}
    \cup
    {[fn |-> "estimate", people |-> p, choice |-> DefaultChoices,
      practice |-> q, bonus |-> b] :
        p \in (0 - NegPeople)..MaxEstPeople, q \in EstimatePractices, b \in 0..4}

\* perPerson is probed at the double nearest num / den and at the doubles up
\* to ProbeSpread places before and after it
RankCalls ==
    {[fn |-> "rank", num |-> n, den |-> den, d |-> d] :
        den \in 1..MaxProbeDen, n \in 1..(MaxProbeTier * MaxProbeDen),
        d \in (0 - ProbeSpread)..ProbeSpread}
    \cup {[fn |-> "rank", num |-> 0, den |-> 1, d |-> 0]}

RankProbe(c) == DoubleStep(DoubleOfRatio(c.num, c.den), c.d)

\* walkKmToday = half / 2
AvoidedKgCalls ==
    {[fn |-> "avoidedKg", half |-> h] : h \in (0 - 2 * NegWalkKm)..(2 * WalkMaxKm)}

Calls ==
    HouseholdScaleCalls \cup CalcSubtotalCalls \cup CalcPracticeMultiplierCalls
        \cup EstimateCalls \cup RankCalls \cup AvoidedKgCalls

\* the three memo cells that make up the footprint of one input snapshot
EstimateOf(p, c, hs, pm, b) ==
    [householdScale |-> hs, practiceMultiplier |-> pm,
     result |-> Result(p, c.transport, c.diet, c.energy, c.lifestyle, c.flights, hs, pm, b)]

Estimate(p, c, q, b) == EstimateOf(p, c, HouseholdScale(p), calcPracticeMultiplier(q), b)

PureInit == Mounted /\ call \in Calls /\ ret = <<>>

Return(fn, value) ==
    /\ call.fn = fn
    /\ ret = <<>>
    /\ ret' = <<value>>
    /\ UNCHANGED <<step, survey, bonus, effect, inputs, calculated, memos, edits, call, selected>>

CallHouseholdScale == Return("householdScale", HouseholdScale(call.people))

CallCalcSubtotal ==
    Return("calcSubtotal",
           calcSubtotal(call.people, call.choice.transport, call.choice.diet,
                        call.choice.energy, call.choice.lifestyle, call.choice.flights,
                        HouseholdScale(call.people)))

CallCalcPracticeMultiplier ==
    Return("calcPracticeMultiplier", calcPracticeMultiplier(call.practice))

CallEstimate ==
    Return("estimate", Estimate(call.people, call.choice, call.practice, call.bonus))

CallRank == Return("rank", Rank(RankProbe(call)))

CallAvoidedKg == Return("avoidedKg", AvoidedKg(5 * call.half))

PureNext ==
    \/ CallHouseholdScale \/ CallCalcSubtotal \/ CallCalcPracticeMultiplier
    \/ CallEstimate \/ CallRank \/ CallAvoidedKg

PureSpec == PureInit /\ [][PureNext]_vars

(***************************************************************************)
(* Properties.                                                             *)
(***************************************************************************)
Returned(fn) == call.fn = fn /\ ret # <<>>

\* how many doubles away from the double nearest a decimal a computed number
\* may lie and still be that decimal as far as a double can tell
Ulps == 2

\* x is the decimal n / d > 0, up to the rounding of the operations behind it
Near(x, n, d) == \E j \in (0 - Ulps)..Ulps : x = DoubleStep(DoubleOfRatio(n, d), j)

\* lo <= x <= hi
Between(lo, x, hi) == DoubleCmp(lo, x) <= 0 /\ DoubleCmp(x, hi) <= 0

\* C1: once the bonus effect has run, bonus is 1 if know is yes plus 3 if
\* walked is yes, hence one of 0, 1, 3, 4, whatever the reasons and the
\* satisfaction selections are.
C1_BonusIsSurveyScore ==
    ~effect =>
        /\ bonus = (IF survey.know = "yes" THEN 1 ELSE 0)
                     + (IF survey.walked = "yes" THEN 3 ELSE 0)
        /\ bonus \in {0, 1, 3, 4}

C1_Witness ==
    /\ ~effect
    /\ survey.know = "yes" /\ survey.walked = "yes" /\ survey.reasons # <<>>
    /\ bonus = 4

Scenario3 ==
    [fn |-> "estimate", people |-> 1, choice |-> DefaultChoices,
     practice |-> PracticeKey, bonus |-> 4]

\* C2 as stated: in scenario 3 the practice multiplier is clamped to 0.6 and
\* the total is 6.1 * 0.6 * 0.92, about 3.367.
C2_AsStated ==
    (Returned("estimate") /\ call = Scenario3) =>
        /\ ret[1].practiceMultiplier = DoubleOfRatio(6, 10)
        /\ Between(DoubleOfRatio(3366, 1000), ret[1].result.total, DoubleOfRatio(3368, 1000))

\* C2, amended: in scenario 3 the product of the six practice factors is
\* about 0.6053, which is above the floor 0.6 and so is the practice
\* multiplier unclamped, and the total is 6.1 * 0.6053 * 0.92, about 3.397.
C2_Scenario3 ==
    (Returned("estimate") /\ call = Scenario3) =>
        /\ Between(DoubleOfRatio(60528, 100000), ret[1].practiceMultiplier,
                   DoubleOfRatio(60529, 100000))
        /\ DoubleCmp(ret[1].practiceMultiplier, DoubleOfRatio(6, 10)) > 0
        /\ Between(DoubleOfRatio(3396, 1000), ret[1].result.total, DoubleOfRatio(3398, 1000))

C2_Witness == Returned("estimate") /\ call = Scenario3

Scenario2 ==
    [fn |-> "estimate", people |-> 4, choice |-> DefaultChoices,
     practice |-> <<>>, bonus |-> 0]

Scenario2Subtotal == [fn |-> "calcSubtotal", people |-> 4, choice |-> DefaultChoices]

\* C3: scenario 2 (people = 4, all defaults, no practice, bonus 0) yields
\* scale 0.7, home 3.92, transport 8.4, food 6.8, other 3.6, flights 0,
\* subtotal 22.72, total 22.72, perPerson 5.68 (each up to the rounding of
\* the doubles) and tier B; in every call the flights term is the table entry
\* itself, every other category is its base rate times people times its
\* multiplier, and only home is times the scale.
C3_Scenario2 ==
    /\ Returned("calcSubtotal") =>
          LET p == Number(call.people)
              c == call.choice
              r == ret[1]
          IN  /\ r.flightAdd = FACTORS.flights[c.flights]
              /\ r.home = DoubleMul(DoubleMul(DoubleMul(BASE.homePerPerson, p),
                                              HouseholdScale(call.people)),
                                    FACTORS.energy[c.energy])
              /\ r.transportVal = DoubleMul(DoubleMul(BASE.transportPerPerson, p),
                                            FACTORS.transport[c.transport])
              /\ r.food = DoubleMul(DoubleMul(BASE.foodPerPerson, p), FACTORS.diet[c.diet])
              /\ r.other = DoubleMul(DoubleMul(BASE.otherPerPerson, p),
                                     FACTORS.lifestyle[c.lifestyle])
    /\ (Returned("calcSubtotal") /\ call = Scenario2Subtotal) =>
          /\ Near(ret[1].home, 392, 100)
          /\ Near(ret[1].transportVal, 84, 10)
          /\ Near(ret[1].food, 68, 10)
          /\ Near(ret[1].other, 36, 10)
          /\ ret[1].flightAdd = Number(0)
          /\ Near(ret[1].subtotal, 2272, 100)
    /\ (Returned("estimate") /\ call = Scenario2) =>
          /\ Near(ret[1].householdScale, 7, 10)
          /\ Near(ret[1].result.breakdown[1].value, 392, 100)
          /\ Near(ret[1].result.breakdown[2].value, 84, 10)
          /\ Near(ret[1].result.breakdown[3].value, 68, 10)
          /\ Near(ret[1].result.breakdown[4].value, 36, 10)
          /\ ret[1].result.breakdown[5].value = Number(0)
          /\ Near(ret[1].result.total, 2272, 100)
          /\ Near(ret[1].result.perPerson, 568, 100)
          /\ ret[1].result.rank.tier = "B"

C3_Witness == Returned("estimate") /\ call = Scenario2 /\ ret[1].result.rank.tier = "B"

\* C4: for every array P of distinct practices the multiplier lies in
\* [0.6, 1], is exactly 1 for the empty array, and adding any practice not
\* in P does not raise it.
C4_PracticeMonotone ==
    Returned("calcPracticeMultiplier") =>
        /\ Between(DoubleOfRatio(6, 10), ret[1], Number(1))
        /\ call.practice = <<>> => ret[1] = Number(1)
        /\ \A k \in Range(PracticeKey) \ Range(call.practice) :
              DoubleCmp(calcPracticeMultiplier(Append(call.practice, k)), ret[1]) <= 0

C4_Witness ==
    /\ Returned("calcPracticeMultiplier")
    /\ Len(call.practice) = 5
    /\ DoubleCmp(calcPracticeMultiplier(Append(call.practice, "tempControl")), ret[1]) < 0

\* C5: the tier lookup always selects one band of S, A, B, C, D: S up to and
\* including 3, A above 3 up to 5, B above 5 up to 7, C above 7 up to 9 and D
\* above 9; the double next after 3 is already A.  (A probe is at most m when
\* num / den is below m, or is m and the probe is not a double after it.)
C5_TierBands ==
    Returned("rank") =>
        LET AtMost(m) == call.num < m * call.den \/ (call.num = m * call.den /\ call.d <= 0)
        IN  /\ ret[1].tier \in {"S", "A", "B", "C", "D"}
            /\ ret[1].tier = "S" <=> AtMost(3)
            /\ ret[1].tier = "A" <=> (~AtMost(3) /\ AtMost(5))
            /\ ret[1].tier = "B" <=> (~AtMost(5) /\ AtMost(7))
            /\ ret[1].tier = "C" <=> (~AtMost(7) /\ AtMost(9))
            /\ ret[1].tier = "D" <=> ~AtMost(9)

C5_Witness ==
    Returned("rank") /\ call.num = 3 /\ call.den = 1 /\ call.d = 1 /\ ret[1].tier = "A"

\* C6: for people >= 1 the household scale is 1.0, 0.9, 0.8, 0.7 for
\* 1, 2, 3, 4 people and exactly 0.6 from 5 people on: never below 0.6 and
\* not larger for one more person.
C6_HouseholdScale ==
    (Returned("householdScale") /\ call.people >= 1) =>
        /\ ret[1] = IF call.people <= 4 THEN DoubleOfRatio(11 - call.people, 10)
                    ELSE DoubleOfRatio(6, 10)
        /\ DoubleCmp(ret[1], DoubleOfRatio(6, 10)) >= 0
        /\ DoubleCmp(HouseholdScale(call.people + 1), ret[1]) <= 0

C6_Witness == Returned("householdScale") /\ call.people = 6 /\ ret[1] = DoubleOfRatio(6, 10)

\* C7: for people >= 1, every choice, practice array and bonus in 0..4, every
\* category subtotal is >= 0, the bonus multiplier 1 - 0.02 * bonus lies in
\* [0.92, 1], and total = subtotal * practiceMultiplier * bonusMultiplier >= 0.
C7_TotalNonNegative ==
    (Returned("estimate") /\ call.people >= 1) =>
        LET r  == ret[1].result
            v  == [i \in 1..5 |-> r.breakdown[i].value]
            bm == DoubleOfRatio(100 - 2 * call.bonus, 100)
        IN  /\ \A i \in 1..5 : DoubleCmp(v[i], Number(0)) >= 0
            /\ Between(DoubleOfRatio(92, 100), bm, Number(1))
            /\ r.total = DoubleMul(DoubleMul(SumFrom(v[1], <<v[2], v[3], v[4], v[5]>>),
                                             ret[1].practiceMultiplier), bm)
            /\ DoubleCmp(r.total, Number(0)) >= 0

C7_Witness ==
    /\ Returned("estimate") /\ call.people = 3 /\ call.bonus = 4
    /\ call.practice = PracticeKey /\ call.choice.flights = "many"
    /\ DoubleCmp(ret[1].result.total, Number(0)) > 0

\* C8: in every state the cached householdScale, practiceMultiplier, result
\* and avoidedKg are what the estimator yields on the current inputs and the
\* current bonus: nothing of an earlier snapshot is carried over.
C8_MemosAreFresh ==
    /\ householdScale = HouseholdScale(people)
    /\ practiceMultiplier = calcPracticeMultiplier(practice)
    /\ result = Result(people, transport, diet, energy, lifestyle, flights,
                       HouseholdScale(people), calcPracticeMultiplier(practice), bonus)
    /\ avoidedKg = AvoidedKg(walkKmToday)

C8_Witness == step = 2 /\ ~effect /\ bonus = 3 /\ people = 5 /\ edits = 3

\* C9: avoidedKg is 0 for every negative distance and 0.19 times the distance
\* otherwise (up to the rounding of the product): 0 at -5 km, 1.9 at 10 km.
\* (walkKmToday = half / 2 km, so 0.19 * walkKmToday is 19 * half / 200.)
C9_AvoidedKg ==
    Returned("avoidedKg") =>
        /\ IF call.half <= 0 THEN ret[1] = Number(0) ELSE Near(ret[1], 19 * call.half, 200)
        /\ call.half = -10 => ret[1] = Number(0)
        /\ call.half = 20 => ret[1] = DoubleOfRatio(19, 10)

C9_Witness == Returned("avoidedKg") /\ call.half = -10 /\ ret[1] = Number(0)

\* C10: perPerson is total / people when people > 0 and total itself when
\* people <= 0; nothing is divided by zero or by a negative count and a tier
\* is found.
C10_PerPersonGuard ==
    Returned("estimate") =>
        LET r == ret[1].result
        IN  /\ call.people > 0 => r.perPerson = DoubleDivInt(r.total, call.people)
            /\ call.people <= 0 => r.perPerson = r.total
            /\ r.perPerson # NaN /\ ~IsInfinite(r.perPerson)
            /\ r.rank.tier \in {"S", "A", "B", "C", "D"}

C10_Witness ==
    /\ Returned("estimate") /\ call.people = 0 /\ call.choice.flights = "many"
    /\ ret[1].result.perPerson = ret[1].result.total
    /\ ret[1].result.rank.tier = "S"

\* the practice array holds no key twice and holds exactly the keys whose last
\* toggle since the last clear was checked
PracticeIsSelection ==
    /\ Len(practice) = Cardinality(Range(practice))
    /\ Range(practice) = selected

\* every order in which the keys of S can have been checked
Orderings(S) == {q \in ArraysOver(S) : Len(q) = Cardinality(S)}

\* the practice multiplier is the number calcPracticeMultiplier returns for
\* the same keys checked in any order
MultiplierOfSetOnly ==
    \A q \in Orderings(Range(practice)) :
        practiceMultiplier = calcPracticeMultiplier(q)

\* C11 as stated: after any sequence of togglePractice calls and clear
\* presses the practice list has no duplicate key and holds exactly the keys
\* whose last toggle since the last clear was checked = true, and the
\* practice multiplier depends only on that set, not on the order of the
\* toggles.
C11_AsStated == PracticeIsSelection /\ MultiplierOfSetOnly

\* C12 as stated: in step 2 calculated is true only if the view-results
\* button was pressed after the most recent change to a calculator input:
\* every step that changes an input (the clear-practices button included)
\* leaves calculated false, and calculated turns true by the view-results
\* button alone.
C12_AsStated ==
    [][ /\ inputs' # inputs => ~calculated'
        /\ (~calculated /\ calculated') => ViewResult ]_vars
====
